---- MODULE Spec2Model ----
(***************************************************************************)
(* The write path of the LevelDB log: log::Writer (db/log_writer.cc) and   *)
(* the format constants of db/log_format.h.                                *)
(*                                                                         *)
(* The Writer is modelled statement by statement.  The destination file    *)
(* dest_ is the sequence of the Slices that were appended successfully; a  *)
(* Slice of the caller's payload is kept as the code keeps it, a pointer   *)
(* into the payload and a size.  Every Append and Flush of the file may    *)
(* fail; a failed Append adds nothing to the file.                         *)
(***************************************************************************)
EXTENDS Integers, Sequences, FiniteSets, TLC

\* ---------------------------------------------------------------- format
kZeroType == 0
kFullType == 1
kFirstType == 2
kMiddleType == 3
kLastType == 4
kMaxRecordType == kLastType
kBlockSize == 32768
kHeaderSize == 4 + 2 + 1

\* ---------------------------------------------------------------- bounds
\* AddRecord calls made on one Writer, and failing sink calls in one run.
MaxCalls == 2
MaxFail == 1
\* Longest payload whose header bytes are computed byte by byte.
MaxData == 3

\* Payload sizes handed to AddRecord: empty, small, and the sizes that from
\* a fresh block leave exactly kHeaderSize bytes, leave 3 bytes, fill the
\* block exactly, and span three blocks.
PayloadSizes ==
    { 0, 10,
      kBlockSize - 2 * kHeaderSize,
      kBlockSize - kHeaderSize - 3,
      kBlockSize - kHeaderSize,
      2 * (kBlockSize - kHeaderSize) + 5 }

\* Lengths of an existing file the Writer resumes on.
DestLengths ==
    { kBlockSize - 3,
      kBlockSize - kHeaderSize,
      kBlockSize - kHeaderSize - 1,
      2 * kBlockSize + 100 }

\* Status values: ok, or the error of a failed file operation.  The error
\* names the operation that failed, so that a returned Status can be traced
\* to the operation it came from.
OK == "OK"
ErrorOf(kind) ==
    CASE kind = "trailer" -> "IOError: trailer"
      [] kind = "header" -> "IOError: header"
      [] kind = "payload" -> "IOError: payload"
      [] kind = "flush" -> "IOError: flush"

VARIABLES
    block_offset_,  \* Writer::block_offset_
    type_crc_,      \* Writer::type_crc_
    dest_,          \* the file: the Slices appended successfully, in order
    pc,             \* position of the thread inside AddRecord
    ptr,            \* AddRecord: offset of ptr from slice.data()
    left,           \* AddRecord: left
    begin,          \* AddRecord: begin
    s,              \* AddRecord: s (the Status of the last emit)
    emit,           \* arguments of the running EmitPhysicalRecord call
    calls,          \* history: one entry per AddRecord call
    emits,          \* history: one entry per EmitPhysicalRecord call
    ops,            \* history: one entry per Append/Flush made on the file
    nfail           \* history: number of file operations that failed

vars == <<block_offset_, type_crc_, dest_, pc, ptr, left, begin, s, emit, calls, emits,
          ops, nfail>>

\* ---------------------------------------------------------------- helpers
RECURSIVE SumSizes(_)
SumSizes(chunks) ==
    IF chunks = <<>> THEN 0
    ELSE chunks[1].size + SumSizes(Tail(chunks))

\* Number of bytes in the file.
FileSize == SumSizes(dest_)

\* What a file operation may return: the file fails at most MaxFail times.
Outcomes(kind) == IF nfail < MaxFail THEN {OK, ErrorOf(kind)} ELSE {OK}

Failed(r) == IF r = OK THEN 0 ELSE 1

\* WritableFile::Append(data): on success the slice is at the end of the file.
FileAppend(file, chunk, r) == IF r = OK THEN Append(file, chunk) ELSE file

\* History entry of a file operation: the AddRecord call and the physical
\* record it belongs to, its size, the file size before it, its Status.
OpEntry(frag, kind, size, r) ==
    [call |-> Len(calls), frag |-> frag, kind |-> kind, size |-> size,
     off |-> FileSize, st |-> r]

\* ---------------------------------------------------------------- crc32c
\* util/crc32c and util/coding: CRC-32C (Castagnoli, reflected polynomial
\* 0x82F63B78), its masking for storage, and the little-endian encoding of a
\* 32-bit word.  A uint32_t is the pair <<high 16 bits, low 16 bits>>.
Half == 65536
kPoly == <<33526, 15224>>
kMaskDelta == <<41602, 60120>>
Zero32 == <<0, 0>>

RECURSIVE XorBits(_, _, _)
XorBits(a, b, n) ==
    IF n = 0 THEN 0
    ELSE ((a + b) % 2) + 2 * XorBits(a \div 2, b \div 2, n - 1)

\* a ^ b
Xor32(a, b) == <<XorBits(a[1], b[1], 16), XorBits(a[2], b[2], 16)>>

\* ~a
Not32(a) == <<(Half - 1) - a[1], (Half - 1) - a[2]>>

\* a >> 1
Shr1(a) == <<a[1] \div 2, (a[2] \div 2) + (a[1] % 2) * (Half \div 2)>>

\* a rotated left by one bit
Rotl1(a) ==
    << ((a[1] * 2) % Half) + (a[2] \div (Half \div 2)),
       ((a[2] * 2) % Half) + (a[1] \div (Half \div 2)) >>

\* a rotated right by one bit
Rotr1(a) ==
    << (a[1] \div 2) + (a[2] % 2) * (Half \div 2),
       (a[2] \div 2) + (a[1] % 2) * (Half \div 2) >>

\* a + b and a - b on uint32_t
Add32(a, b) ==
    << (a[1] + b[1] + ((a[2] + b[2]) \div Half)) % Half, (a[2] + b[2]) % Half >>

Sub32(a, b) ==
    << (a[1] - b[1] - (IF a[2] < b[2] THEN 1 ELSE 0)) % Half,
       (a[2] - b[2]) % Half >>

RECURSIVE ShiftOut(_, _)
ShiftOut(x, n) ==
    IF n = 0 THEN x
    ELSE ShiftOut(IF x[2] % 2 = 1 THEN Xor32(Shr1(x), kPoly) ELSE Shr1(x),
                  n - 1)

\* The running crc l after the bytes of data, one byte at a time.  (The test
\* on l keeps the evaluation in step with the bytes.)
RECURSIVE CrcBytes(_, _)
CrcBytes(l, data) ==
    IF l[1] >= 0 /\ data = <<>> THEN l
    ELSE CrcBytes(ShiftOut(Xor32(l, <<0, data[1]>>), 8), Tail(data))

\* crc32c::Extend(init_crc, data, n)
crc32c_Extend(init_crc, data) == Not32(CrcBytes(Not32(init_crc), data))

\* crc32c::Value(data, n)
crc32c_Value(data) == crc32c_Extend(Zero32, data)

\* crc32c::Mask(crc): rotate right by 15 bits and add a constant.
crc32c_Mask(crc) == Add32(Rotl1(<<crc[2], crc[1]>>), kMaskDelta)

\* crc32c::Unmask(masked_crc): subtract the constant, rotate left by 15 bits.
crc32c_Unmask(masked) ==
    LET rot == Sub32(masked, kMaskDelta)
    IN Rotr1(<<rot[2], rot[1]>>)

\* EncodeFixed32(buf, value) and DecodeFixed32(buf): little-endian.
EncodeFixed32(value) ==
    << value[2] % 256, value[2] \div 256, value[1] % 256, value[1] \div 256 >>

DecodeFixed32(b) == <<b[3] + 256 * b[4], b[1] + 256 * b[2]>>

\* ---------------------------------------------------------------- Writer
\* Mutant: the loop stops one type short, the last entry stays zero.
InitTypeCrc_SkipsLast ==
    [i \in 0..kMaxRecordType |->
        IF i < kMaxRecordType THEN crc32c_Value(<<i % 256>>) ELSE Zero32]

\* InitTypeCrc(type_crc): the crc of the one byte i, for every record type.
InitTypeCrc == [i \in 0..kMaxRecordType |-> crc32c_Value(<<i % 256>>)]

\* Mutant: the initial offset is the file length itself.
InitialBlockOffset_NoMod(dest_length) == dest_length

\* Writer::Writer(dest, dest_length): the initial block offset.
InitialBlockOffset(dest_length) == dest_length % kBlockSize

\* AddRecord: leftover = kBlockSize - block_offset_
Leftover(block_offset) == kBlockSize - block_offset

\* Mutant: the block is also switched when exactly a header fits.
SwitchBlock_Inclusive(leftover) == leftover <= kHeaderSize

\* AddRecord: if (leftover < kHeaderSize) switch to a new block
SwitchBlock(leftover) == leftover < kHeaderSize

\* Mutant: the trailer is never written.
FillTrailer_Skipped(leftover) == leftover > kHeaderSize

\* AddRecord: if (leftover > 0) fill the trailer
FillTrailer(leftover) == leftover > 0

\* Mutant: the whole six-byte literal is appended as the trailer.
TrailerSlice_FullLiteral(leftover) == [kind |-> "zeros", size |-> kHeaderSize - 1]

\* AddRecord: Slice("\x00\x00\x00\x00\x00\x00", leftover)
TrailerSlice(leftover) == [kind |-> "zeros", size |-> leftover]

\* Mutant: avail forgets the header.
Avail_NoHeader(block_offset) == kBlockSize - block_offset

\* AddRecord: avail = kBlockSize - block_offset_ - kHeaderSize
Avail(block_offset) == kBlockSize - block_offset - kHeaderSize

\* Mutant: the fragment takes the larger of what is left and what fits.
FragmentLength_Max(l, avail) == IF l < avail THEN avail ELSE l

\* AddRecord: fragment_length = (left < avail) ? left : avail
FragmentLength(l, avail) == IF l < avail THEN l ELSE avail

\* Mutant: the last fragment is typed as a middle one.
TypeOf_LastAsMiddle(b, end) ==
    IF b /\ end THEN kFullType
    ELSE IF b THEN kFirstType
    ELSE kMiddleType

\* Mutant: begin is tested alone, so a whole record is typed kFirstType.
TypeOf_BeginIsFirst(b, end) ==
    IF b THEN kFirstType
    ELSE IF end THEN kLastType
    ELSE kMiddleType

\* AddRecord: the type from begin and end
TypeOf(b, end) ==
    IF b /\ end THEN kFullType
    ELSE IF b THEN kFirstType
    ELSE IF end THEN kLastType
    ELSE kMiddleType

\* Mutant: ptr is not advanced.
NextPtr_Stuck(p, fragment_length) == p

\* AddRecord: ptr += fragment_length
NextPtr(p, fragment_length) == p + fragment_length

\* Mutant: left is not reduced by the fragment.
NextLeft_Stuck(l, fragment_length) == l

\* AddRecord: left -= fragment_length
NextLeft(l, fragment_length) == l - fragment_length

\* Mutant: the loop goes on after a failed emit.
Continue_IgnoreStatus(st, l) == l > 0

\* Mutant: the loop also repeats when nothing is left.
Continue_Inclusive(st, l) == st = OK /\ l >= 0

\* AddRecord: while (s.ok() && left > 0)
Continue(st, l) == st = OK /\ l > 0

\* EmitPhysicalRecord: the header buf.  buf[4], buf[5] and buf[6] are the
\* bytes the code stores; buf[0..3] is the encoded masked crc, kept as the
\* arguments of crc32c::Extend(type_crc_[t], ptr, length).
HeaderSlice(call, t, p, length) ==
    [kind |-> "header", size |-> kHeaderSize,
     crc |-> [seed |-> type_crc_[t], type |-> t, call |-> call, ptr |-> p,
              size |-> length],
     b4 |-> length % 256,
     b5 |-> (length \div 256) % 256,
     b6 |-> t % 256]

\* EmitPhysicalRecord: the seven bytes of buf for a record of type t whose
\* payload is the byte sequence data: buf[4], buf[5] the length, buf[6] the
\* type, buf[0..3] EncodeFixed32 of the masked crc of type and payload.
HeaderBuf(t, data) ==
    LET length == Len(data)
        crc == crc32c_Mask(crc32c_Extend(type_crc_[t], data))
    IN EncodeFixed32(crc)
         \o <<length % 256, (length \div 256) % 256, t % 256>>

\* Mutant: the payload slice always starts at slice.data().
PayloadSlice_FromStart(call, p, length) ==
    [kind |-> "data", size |-> length, call |-> call, ptr |-> 0]

\* EmitPhysicalRecord: Slice(ptr, length)
PayloadSlice(call, p, length) ==
    [kind |-> "data", size |-> length, call |-> call, ptr |-> p]

\* Mutant: the offset advances only when the record was written.
AdvanceOffset_OnlyIfOk(block_offset, length) ==
    IF s = OK THEN block_offset + kHeaderSize + length ELSE block_offset

\* Mutant: the offset advances by the payload only.
AdvanceOffset_NoHeader(block_offset, length) == block_offset + length

\* EmitPhysicalRecord: block_offset_ += kHeaderSize + length
AdvanceOffset(block_offset, length) == block_offset + kHeaderSize + length

\* AddRecord: assert(leftover >= 0)
AssertLeftover(leftover) == leftover >= 0

\* AddRecord: assert(kBlockSize - block_offset_ - kHeaderSize >= 0)
AssertRoom(block_offset) == kBlockSize - block_offset - kHeaderSize >= 0

\* EmitPhysicalRecord: assert(length <= 0xffff)
AssertLength(length) == length <= 65535

\* EmitPhysicalRecord: assert(block_offset_ + kHeaderSize + length <= kBlockSize)
AssertFits(block_offset, length) ==
    block_offset + kHeaderSize + length <= kBlockSize

\* ---------------------------------------------------------------- Init
\* Writer(dest) on an empty file, or Writer(dest, dest_length) on a file
\* that holds dest_length bytes.
Init ==
    /\ \/ /\ dest_ = <<>>
          /\ block_offset_ = 0
       \/ \E dest_length \in DestLengths :
            /\ dest_ = <<[kind |-> "old", size |-> dest_length]>>
            /\ block_offset_ = InitialBlockOffset(dest_length)
    /\ type_crc_ = InitTypeCrc
    /\ pc = "idle"
    /\ ptr = 0
    /\ left = 0
    /\ begin = FALSE
    /\ s = OK
    /\ emit = [t |-> kZeroType, ptr |-> 0, length |-> 0]
    /\ calls = <<>>
    /\ emits = <<>>
    /\ ops = <<>>
    /\ nfail = 0

\* ---------------------------------------------------------------- actions
\* AddRecord(slice), up to the do loop.
AddRecord ==
    /\ pc = "idle"
    /\ Len(calls) < MaxCalls
    /\ \E size \in PayloadSizes :
         /\ ptr' = 0
         /\ left' = size
         /\ calls' = Append(calls, [size |-> size, entry |-> block_offset_,
                                    start |-> FileSize, ret |-> "running",
                                    exit |-> -1])
    /\ s' = OK
    /\ begin' = TRUE
    /\ pc' = "do"
    /\ UNCHANGED <<block_offset_, type_crc_, dest_, emit, emits, ops, nfail>>

\* One pass of the loop body up to the call of EmitPhysicalRecord: the block
\* switch with its trailer, then avail, fragment_length, end and type.
LoopBody ==
    /\ pc = "do"
    /\ LET leftover == Leftover(block_offset_)
           switch == SwitchBlock(leftover)
           fill == switch /\ FillTrailer(leftover)
           offset == IF switch THEN 0 ELSE block_offset_
           avail == Avail(offset)
           fragment_length == FragmentLength(left, avail)
           end == (left = fragment_length)
           type == TypeOf(begin, end)
       IN /\ \E r \in (IF fill THEN Outcomes("trailer") ELSE {OK}) :
               /\ dest_' = IF fill
                           THEN FileAppend(dest_, TrailerSlice(leftover), r)
                           ELSE dest_
               /\ ops' = IF fill
                         THEN Append(ops, OpEntry(Len(emits) + 1, "trailer",
                                             leftover, r))
                         ELSE ops
               /\ nfail' = nfail + Failed(r)
          /\ block_offset_' = offset
          /\ emit' = [t |-> type, ptr |-> ptr, length |-> fragment_length]
          /\ emits' = Append(emits,
                             [call |-> Len(calls), t |-> type, ptr |-> ptr,
                              length |-> fragment_length,
                              block |-> offset, left |-> left,
                              leftover |-> leftover, after |-> -1])
    /\ pc' = "header"
    /\ UNCHANGED <<type_crc_, ptr, left, begin, s, calls>>

\* Mutant: the payload is appended whatever the header Append returned.
EmitHeader_AlwaysPayload ==
    /\ pc = "header"
    /\ \E r \in Outcomes("header") :
         /\ dest_' = FileAppend(dest_, HeaderSlice(Len(calls), emit.t,
                                                   emit.ptr, emit.length), r)
         /\ ops' = Append(ops, OpEntry(Len(emits), "header", kHeaderSize, r))
         /\ nfail' = nfail + Failed(r)
         /\ s' = r
         /\ pc' = "payload"
    /\ UNCHANGED <<block_offset_, type_crc_, ptr, left, begin, emit, calls, emits>>

\* EmitPhysicalRecord: s = dest_->Append(Slice(buf, kHeaderSize))
EmitHeader ==
    /\ pc = "header"
    /\ \E r \in Outcomes("header") :
         /\ dest_' = FileAppend(dest_, HeaderSlice(Len(calls), emit.t,
                                                   emit.ptr, emit.length), r)
         /\ ops' = Append(ops, OpEntry(Len(emits), "header", kHeaderSize, r))
         /\ nfail' = nfail + Failed(r)
         /\ s' = r
         /\ pc' = IF r = OK THEN "payload" ELSE "advance"
    /\ UNCHANGED <<block_offset_, type_crc_, ptr, left, begin, emit, calls, emits>>

\* EmitPhysicalRecord: s = dest_->Append(Slice(ptr, length))
EmitPayload ==
    /\ pc = "payload"
    /\ \E r \in Outcomes("payload") :
         /\ dest_' = FileAppend(dest_, PayloadSlice(Len(calls), emit.ptr,
                                                    emit.length), r)
         /\ ops' = Append(ops, OpEntry(Len(emits), "payload", emit.length, r))
         /\ nfail' = nfail + Failed(r)
         /\ s' = r
         /\ pc' = IF r = OK THEN "flush" ELSE "advance"
    /\ UNCHANGED <<block_offset_, type_crc_, ptr, left, begin, emit, calls, emits>>

\* Mutant: the Status of the Flush is dropped.
EmitFlush_StatusDropped ==
    /\ pc = "flush"
    /\ \E r \in Outcomes("flush") :
         /\ ops' = Append(ops, OpEntry(Len(emits), "flush", 0, r))
         /\ nfail' = nfail + Failed(r)
    /\ pc' = "advance"
    /\ UNCHANGED <<block_offset_, type_crc_, dest_, ptr, left, begin, s, emit, calls,
                   emits>>

\* EmitPhysicalRecord: s = dest_->Flush()
EmitFlush ==
    /\ pc = "flush"
    /\ \E r \in Outcomes("flush") :
         /\ ops' = Append(ops, OpEntry(Len(emits), "flush", 0, r))
         /\ nfail' = nfail + Failed(r)
         /\ s' = r
    /\ pc' = "advance"
    /\ UNCHANGED <<block_offset_, type_crc_, dest_, ptr, left, begin, emit, calls, emits>>

\* EmitPhysicalRecord advances block_offset_ and returns s; AddRecord moves
\* ptr and left, clears begin, and loops or returns s.
EmitReturn ==
    /\ pc = "advance"
    /\ block_offset_' = AdvanceOffset(block_offset_, emit.length)
    /\ ptr' = NextPtr(ptr, emit.length)
    /\ left' = NextLeft(left, emit.length)
    /\ begin' = FALSE
    /\ IF Continue(s, left')
       THEN /\ pc' = "do"
            /\ calls' = calls
       ELSE /\ pc' = "idle"
            /\ calls' = [calls EXCEPT ![Len(calls)].ret = s,
                                      ![Len(calls)].exit = block_offset_']
    /\ emits' = [emits EXCEPT ![Len(emits)].after = block_offset_']
    /\ UNCHANGED <<type_crc_, dest_, s, emit, ops, nfail>>

Next ==
    \/ AddRecord
    \/ LoopBody
    \/ EmitHeader
    \/ EmitPayload
    \/ EmitFlush
    \/ EmitReturn

Spec == Init /\ [][Next]_vars

\* The steps of a running AddRecord call.  The call runs on one thread with no
\* suspension point, and every Append and Flush returns, so a call that has
\* started keeps taking its next step.
Running ==
    \/ LoopBody
    \/ EmitHeader
    \/ EmitPayload
    \/ EmitFlush
    \/ EmitReturn

SpecLive == Spec /\ WF_vars(Running)

\* ---------------------------------------------------------------- header bytes
\* The bytes a payload can hold, and the payloads short enough to checksum.
DataBytes == {0, 97, 255}

Payloads == UNION {[1..n -> DataBytes] : n \in 0..MaxData}

\* EmitPhysicalRecord(t, ptr, length) up to the first Append: the header is
\* formatted from the real bytes of a short payload.
FormatHeader ==
    /\ pc = "idle"
    /\ \E t \in kFullType..kMaxRecordType, data \in Payloads :
         emit' = [t |-> t, ptr |-> 0, length |-> Len(data), data |-> data,
                  buf |-> HeaderBuf(t, data)]
    /\ pc' = "formatted"
    /\ UNCHANGED <<block_offset_, type_crc_, dest_, ptr, left, begin, s,
                   calls, emits, ops, nfail>>

NextCrc == FormatHeader

SpecCrc == Init /\ [][NextCrc]_vars

\* ---------------------------------------------------------------- reading
\* A reader of the log format, used to state what the file must contain.  It
\* walks the file by byte offset: where fewer than kHeaderSize bytes are left
\* in a block it expects the zero trailer, elsewhere a header whose length
\* and type bytes it decodes, followed by that many payload bytes.  The
\* payload of a record is the list of its fragments' payload slices.

Corrupt == [ok |-> FALSE, records |-> <<>>]

\* The bytes of a list of slices, as maximal runs of consecutive bytes.
RECURSIVE Coalesce(_, _)
Coalesce(slices, acc) ==
    IF slices = <<>> THEN acc
    ELSE LET x == slices[1]
             n == Len(acc)
         IN IF x.size = 0 THEN Coalesce(Tail(slices), acc)
            ELSE IF n > 0 /\ acc[n].call = x.call
                          /\ acc[n].ptr + acc[n].size = x.ptr
            THEN Coalesce(Tail(slices),
                          [acc EXCEPT ![n].size = acc[n].size + x.size])
            ELSE Coalesce(Tail(slices), Append(acc, x))

RECURSIVE ReadFrom(_, _, _, _, _)
ReadFrom(k, off, cur, inrec, out) ==
    IF k > Len(dest_) THEN [ok |-> ~inrec, records |-> out]
    ELSE LET c == dest_[k]
             room == kBlockSize - (off % kBlockSize)
         IN IF c.kind = "old" THEN ReadFrom(k + 1, off + c.size, cur, inrec, out)
            ELSE IF room < kHeaderSize
            THEN IF c.kind = "zeros" /\ c.size = room
                 THEN ReadFrom(k + 1, off + room, cur, inrec, out)
                 ELSE Corrupt
            ELSE IF c.kind # "header" \/ k = Len(dest_) THEN Corrupt
            ELSE LET length == c.b4 + 256 * c.b5
                     type == c.b6
                     d == dest_[k + 1]
                     next == off + kHeaderSize + length
                 IN IF \/ d.kind # "data"
                       \/ d.size # length
                       \/ kHeaderSize + length > room
                    THEN Corrupt
                    ELSE LET x == [call |-> d.call, ptr |-> d.ptr,
                                   size |-> d.size]
                         IN CASE type = kFullType /\ ~inrec ->
                                   ReadFrom(k + 2, next, <<>>, FALSE,
                                            Append(out, Coalesce(<<x>>, <<>>)))
                              [] type = kFirstType /\ ~inrec ->
                                   ReadFrom(k + 2, next, <<x>>, TRUE, out)
                              [] type = kMiddleType /\ inrec ->
                                   ReadFrom(k + 2, next, Append(cur, x), TRUE,
                                            out)
                              [] type = kLastType /\ inrec ->
                                   ReadFrom(k + 2, next, <<>>, FALSE,
                                            Append(out, Coalesce(Append(cur, x),
                                                                 <<>>)))
                              [] OTHER -> Corrupt

\* The logical records read back from the file.
ReadLog == ReadFrom(1, 0, <<>>, FALSE, <<>>)

\* The bytes of the payload of the i-th AddRecord call.
PayloadBytes(i) ==
    IF calls[i].size = 0 THEN <<>>
    ELSE <<[call |-> i, ptr |-> 0, size |-> calls[i].size]>>

\* ---------------------------------------------------------------- claims
HasTrailer == \E k \in 1..Len(dest_) : dest_[k].kind = "zeros"

EmittedType(t) == \E k \in 1..Len(emits) : emits[k].t = t

\* C1: when no Append and no Flush has failed, after any sequence of
\* AddRecord calls the file read back as physical records (zero trailers
\* skipped, each run Full or First Middle* Last joined) gives exactly the
\* payloads of the calls, in order, byte for byte.
C1_RoundTrip ==
    (pc = "idle" /\ nfail = 0) =>
        LET r == ReadLog
        IN /\ r.ok
           /\ Len(r.records) = Len(calls)
           /\ \A i \in 1..Len(calls) : r.records[i] = PayloadBytes(i)

C1_Witness ==
    /\ pc = "idle"
    /\ nfail = 0
    /\ Len(calls) = 2
    /\ calls[1].size = 0
    /\ HasTrailer
    /\ EmittedType(kMiddleType)
    /\ Len(ReadLog.records) = 2

\* The file operations and the physical records of the i-th AddRecord call.
OpsOf(i) == {k \in 1..Len(ops) : ops[k].call = i}

EmitsOf(i) == {k \in 1..Len(emits) : emits[k].call = i}

Returned(i) == calls[i].ret # "running"

\* No file operation of the i-th call failed.
CleanCall(i) == \A k \in OpsOf(i) : ops[k].st = OK

\* C2: after AddRecord calls that all returned ok, on a file that may fail,
\* every physical record in the file lies within one block: the offset of
\* its header modulo kBlockSize, plus kHeaderSize, plus its length, is at
\* most kBlockSize.
C2_BlockContainment ==
    (pc = "idle" /\ \A i \in 1..Len(calls) : calls[i].ret = OK) =>
        \A k \in 1..Len(ops) :
            (ops[k].kind = "header" /\ ops[k].st = OK) =>
                (ops[k].off % kBlockSize) + kHeaderSize
                    + emits[ops[k].frag].length <= kBlockSize

\* C3: an AddRecord call during which any Append or Flush failed, the
\* Append of the trailer included, returns a failure.
C3_NoSuppression ==
    \A i \in 1..Len(calls) :
        (Returned(i) /\ ~CleanCall(i)) => calls[i].ret # OK

\* C4: when the Append of a header or of a payload, or a Flush, fails, no
\* further file operation is made in that AddRecord call and the call
\* returns that failure; a call that returns ok made, for every physical
\* record, a header Append, a payload Append and a Flush that all succeeded.
C4_FailurePropagation ==
    /\ \A k \in 1..Len(ops) :
          (ops[k].kind # "trailer" /\ ops[k].st # OK) =>
              /\ \A j \in (k + 1)..Len(ops) : ops[j].call # ops[k].call
              /\ \A e \in EmitsOf(ops[k].call) : e <= ops[k].frag
              /\ calls[ops[k].call].ret \in {"running", ops[k].st}
    /\ \A i \in 1..Len(calls) :
          calls[i].ret = OK =>
              \A e \in EmitsOf(i) :
                  \A kind \in {"header", "payload", "flush"} :
                      \E k \in OpsOf(i) : /\ ops[k].frag = e
                                          /\ ops[k].kind = kind
                                          /\ ops[k].st = OK

C4_Witness ==
    /\ pc = "idle"
    /\ \E k \in 1..Len(ops) :
          /\ ops[k].kind = "payload"
          /\ ops[k].st # OK
          /\ emits[ops[k].frag].t = kFirstType
          /\ calls[ops[k].call].ret = ops[k].st
          /\ Len(calls) > ops[k].call

\* C5 as claimed: after every return of AddRecord,
\* 0 <= block_offset_ < kBlockSize.
C5_OffsetBelowBlockSize ==
    pc = "idle" => (0 <= block_offset_ /\ block_offset_ < kBlockSize)

\* C5, amended: after every return of AddRecord, whether it succeeded or
\* failed, 0 <= block_offset_ <= kBlockSize; a record that ends exactly on
\* the block boundary leaves block_offset_ = kBlockSize.
C5_OffsetWithinBlock ==
    pc = "idle" => (0 <= block_offset_ /\ block_offset_ <= kBlockSize)

C5_Witness ==
    /\ pc = "idle"
    /\ Len(calls) = 2
    /\ calls[1].exit = kBlockSize
    /\ calls[1].ret = OK
    /\ calls[2].ret # OK
    /\ block_offset_ = kBlockSize

\* Bytes between the end of the file and the end of its last block.
UnwrittenTail == (kBlockSize - (FileSize % kBlockSize)) % kBlockSize

TinyGaps == 1..(kHeaderSize - 1)

\* C6 as claimed: each time AddRecord returns, the space between the last
\* record and the end of its block is 0, or at least kHeaderSize, or already
\* zero-filled in the file; 1..kHeaderSize-1 unwritten bytes never remain.
C6_NoTinyGapAtRest ==
    (pc = "idle" /\ calls # <<>> /\ nfail = 0) => UnwrittenTail \notin TinyGaps

\* C6, amended: with no failure of the file, a gap of 1..kHeaderSize-1
\* unwritten bytes may remain at the end of the file when AddRecord returns,
\* but no physical record ever starts in such a gap: the next AddRecord call
\* first appends exactly that many zero bytes as a trailer, and every header
\* is written where at least kHeaderSize bytes of its block remain.
C6_GapFilledByNextCall ==
    nfail = 0 =>
        /\ \A k \in 1..Len(ops) :
              ops[k].kind = "header" =>
                  kBlockSize - (ops[k].off % kBlockSize) >= kHeaderSize
        /\ \A i \in 2..Len(calls) :
              (kBlockSize - calls[i - 1].exit \in TinyGaps /\ OpsOf(i) # {}) =>
                  \E k \in OpsOf(i) :
                      /\ \A j \in OpsOf(i) : k <= j
                      /\ ops[k].kind = "trailer"
                      /\ ops[k].size = kBlockSize - calls[i - 1].exit
                      /\ ops[k].off = calls[i].start
                      /\ (ops[k].off + ops[k].size) % kBlockSize = 0

C6_Witness ==
    /\ pc = "idle"
    /\ nfail = 0
    /\ Len(calls) = 2
    /\ kBlockSize - calls[1].exit \in TinyGaps
    /\ HasTrailer
    /\ UnwrittenTail \in TinyGaps

\* Block offset at which the first record of a call starts, and the payload
\* space it finds there, for a call entered at the given block offset.
StartOf(entry) == IF kBlockSize - entry < kHeaderSize THEN 0 ELSE entry

RoomAt(entry) == kBlockSize - StartOf(entry) - kHeaderSize

FirstEmit(i) == CHOOSE e \in EmitsOf(i) : \A x \in EmitsOf(i) : e <= x

LastEmit(i) == CHOOSE e \in EmitsOf(i) : \A x \in EmitsOf(i) : e >= x

RECURSIVE SumLengths(_, _)
SumLengths(lo, hi) ==
    IF lo > hi THEN 0 ELSE emits[lo].length + SumLengths(lo + 1, hi)

\* C7: an AddRecord call without file failure whose payload is larger than
\* the payload space of the current block (after the block switch) emits at
\* least two physical records, typed First, Middle*, Last, whose lengths
\* add up to the payload size.
C7_SpanningRecord ==
    \A i \in 1..Len(calls) :
        (Returned(i) /\ CleanCall(i) /\ calls[i].size > RoomAt(calls[i].entry))
        => LET lo == FirstEmit(i)
               hi == LastEmit(i)
           IN /\ Cardinality(EmitsOf(i)) >= 2
              /\ emits[lo].t = kFirstType
              /\ emits[hi].t = kLastType
              /\ \A e \in EmitsOf(i) \ {lo, hi} : emits[e].t = kMiddleType
              /\ SumLengths(lo, hi) = calls[i].size

C7_Witness ==
    /\ pc = "idle"
    /\ Len(calls) = 2
    /\ calls[1].start = 0
    /\ CleanCall(2) /\ Cardinality(EmitsOf(2)) = 4
    /\ calls[2].entry = kBlockSize - kHeaderSize
    /\ calls[2].size > kBlockSize - kHeaderSize
    /\ emits[FirstEmit(2)].length = 0
    /\ emits[LastEmit(2)].t = kLastType

\* C8: an AddRecord call without file failure whose payload (of any size,
\* 0 included) fits the payload space of the current block after the block
\* switch emits exactly one record, of type Full and of the payload's size,
\* and leaves block_offset_ at the record's start + kHeaderSize + size; 10
\* bytes on a fresh Writer give one Full record at offset 0 and leave 17.
C8_SingleRecord ==
    \A i \in 1..Len(calls) :
        (Returned(i) /\ CleanCall(i) /\ calls[i].size <= RoomAt(calls[i].entry))
        => /\ Cardinality(EmitsOf(i)) = 1
           /\ \A e \in EmitsOf(i) :
                 /\ emits[e].t = kFullType
                 /\ emits[e].length = calls[i].size
                 /\ emits[e].block = StartOf(calls[i].entry)
           /\ calls[i].exit
                 = StartOf(calls[i].entry) + kHeaderSize + calls[i].size
           /\ (i = 1 /\ calls[i].start = 0 /\ calls[i].size = 10) =>
                 (emits[1].block = 0 /\ calls[i].exit = 17)

C8_Witness ==
    /\ pc = "idle"
    /\ Len(calls) = 2
    /\ calls[1].start = 0 /\ calls[1].size = 10 /\ CleanCall(1)
    /\ calls[1].exit = 17
    /\ calls[2].size = 0 /\ CleanCall(2)
    /\ emits[2].t = kFullType /\ emits[2].length = 0

\* The Writer was constructed with a destination length.
Resumed == dest_ # <<>> /\ dest_[1].kind = "old"

Min(a, b) == IF a < b THEN a ELSE b

\* C9: a Writer constructed with destination length L starts with
\* block_offset_ = L mod kBlockSize, and its first AddRecord does what any
\* AddRecord entered at that offset does: when fewer than kHeaderSize bytes
\* remain in the block its first file operation appends exactly that many
\* zero bytes at offset L and the record starts on the next block boundary,
\* otherwise its first file operation writes the header at offset L and the
\* first fragment has at most kBlockSize - L mod kBlockSize - kHeaderSize
\* bytes.
C9_Resume ==
    /\ Resumed =>
          LET L == dest_[1].size
              room == kBlockSize - (L % kBlockSize)
          IN /\ calls = <<>> => block_offset_ = L % kBlockSize
             /\ calls # <<>> => calls[1].entry = L % kBlockSize
             /\ (ops # <<>> /\ room < kHeaderSize) =>
                   /\ ops[1].kind = "trailer"
                   /\ ops[1].size = room
                   /\ ops[1].off = L
                   /\ ops[1].st = OK => dest_[2] = [kind |-> "zeros",
                                                    size |-> room]
                   /\ emits[1].block = 0
                   /\ (ops[1].st = OK /\ Len(ops) >= 2) =>
                         /\ ops[2].kind = "header"
                         /\ ops[2].off = L + room
                         /\ ops[2].off % kBlockSize = 0
             /\ (ops # <<>> /\ room >= kHeaderSize) =>
                   /\ ops[1].kind = "header"
                   /\ ops[1].off = L
                   /\ emits[1].block = L % kBlockSize
                   /\ emits[1].length <= room - kHeaderSize
    /\ \A i \in 1..Len(calls) :
          EmitsOf(i) # {} =>
              /\ emits[FirstEmit(i)].block = StartOf(calls[i].entry)
              /\ emits[FirstEmit(i)].length
                    = Min(calls[i].size, RoomAt(calls[i].entry))

C9_Witness ==
    /\ Resumed
    /\ dest_[1].size = kBlockSize - 3
    /\ pc = "idle" /\ Len(calls) = 1 /\ calls[1].ret = OK
    /\ ops[1].kind = "trailer" /\ ops[1].st = OK /\ ops[1].size = 3
    /\ ops[2].off = kBlockSize

\* The payload slices in the file, in file order.
DataChunks == SelectSeq(dest_, LAMBDA c : c.kind = "data")

\* C10: the file operations of one AddRecord call all precede those of the
\* next call; in the file every payload slice comes right after the header
\* written for it, and the payload slices of a call follow each other in
\* payload order, each starting where the one before ended.
C10_Ordering ==
    /\ \A k \in 2..Len(ops) : ops[k - 1].call <= ops[k].call
    /\ \A k \in 1..Len(dest_) :
          dest_[k].kind = "data" =>
              /\ k > 1
              /\ dest_[k - 1].kind = "header"
              /\ dest_[k - 1].crc.call = dest_[k].call
              /\ dest_[k - 1].crc.ptr = dest_[k].ptr
              /\ dest_[k - 1].b4 + 256 * dest_[k - 1].b5 = dest_[k].size
    /\ \A k \in 1..Len(DataChunks) :
          LET d == DataChunks[k]
          IN IF k = 1 \/ DataChunks[k - 1].call # d.call
             THEN /\ d.ptr = 0
                  /\ k > 1 => DataChunks[k - 1].call < d.call
             ELSE d.ptr = DataChunks[k - 1].ptr + DataChunks[k - 1].size

C10_Witness ==
    /\ pc = "idle"
    /\ Len(DataChunks) = 5
    /\ DataChunks[3].call = 1 /\ DataChunks[3].ptr > kBlockSize
    /\ DataChunks[5].call = 2 /\ DataChunks[5].ptr > 0


\* The physical records whose EmitPhysicalRecord call has returned.
Emitted == {k \in 1..Len(emits) : emits[k].after # -1}

\* The file operations made for the k-th physical record.
OpsOfEmit(k) == {j \in 1..Len(ops) : ops[j].frag = k}

\* C11: every EmitPhysicalRecord(type, ptr, length) call leaves block_offset_
\* exactly kHeaderSize + length above its value at the call, whether the
\* header Append, the payload Append or the Flush succeeded or failed; until
\* it returns, block_offset_ keeps the value it had at the call.
C11_UnconditionalAdvance ==
    /\ \A k \in Emitted :
          emits[k].after = emits[k].block + kHeaderSize + emits[k].length
    /\ pc \in {"header", "payload", "flush", "advance"} =>
          block_offset_ = emits[Len(emits)].block

C11_Witness ==
    \E k \in Emitted :
        /\ emits[k].length > 0
        /\ \E j \in OpsOfEmit(k) : ops[j].kind = "header" /\ ops[j].st # OK
        /\ emits[k].after = emits[k].block + kHeaderSize + emits[k].length
        /\ block_offset_ = emits[k].after


\* The Appends and the Flush made by the k-th EmitPhysicalRecord call, in
\* the order they were made.
EmitOps(k) == SelectSeq(ops, LAMBDA o : o.frag = k /\ o.kind # "trailer")

CountKind(q, kinds) == Cardinality({j \in 1..Len(q) : q[j].kind \in kinds})

\* The order header Append, payload Append, Flush, each made only if the one
\* before it succeeded.
InEmitOrder(q) ==
    /\ Len(q) >= 1
    /\ Len(q) <= 3
    /\ q[1].kind = "header"
    /\ Len(q) >= 2 => (q[1].st = OK /\ q[2].kind = "payload")
    /\ Len(q) >= 3 => (q[2].st = OK /\ q[3].kind = "flush")

\* C12 as claimed: every emission of a physical record makes one or two
\* Appends and exactly one Flush, in the order header, payload, flush, the
\* payload only after a successful header and the Flush only after a
\* successful payload Append.
C12_ExactlyOneFlush ==
    \A k \in Emitted :
        LET q == EmitOps(k)
        IN /\ CountKind(q, {"header", "payload"}) \in {1, 2}
           /\ CountKind(q, {"flush"}) = 1
           /\ InEmitOrder(q)

\* C12, amended: every emission of a physical record makes the header
\* Append; if and only if it succeeded, the payload Append (also for an
\* empty payload); if and only if that succeeded, one Flush.  So it makes one
\* or two Appends and at most one Flush, and exactly two Appends and one
\* Flush when no Append failed.
C12_SinkOperations ==
    \A k \in Emitted :
        LET q == EmitOps(k)
        IN /\ InEmitOrder(q)
           /\ q[1].size = kHeaderSize
           /\ (q[1].st = OK) = (Len(q) >= 2)
           /\ Len(q) >= 2 => q[2].size = emits[k].length
           /\ Len(q) >= 2 => ((q[2].st = OK) = (Len(q) = 3))
           /\ CountKind(q, {"header", "payload"}) \in {1, 2}
           /\ CountKind(q, {"flush"}) <= 1

C12_Witness ==
    /\ pc = "idle"
    /\ Emitted = {1, 2}
    /\ emits[1].length = 0
    /\ Len(EmitOps(1)) = 3
    /\ Len(EmitOps(2)) = 2
    /\ EmitOps(2)[2].st # OK


\* ---------------------------------------------------------------- C13
\* The header of the running EmitPhysicalRecord call has been formatted.
Formatted == "buf" \in DOMAIN emit

\* The crc field of a formatted header, decoded from its four bytes.
StoredCrc == DecodeFixed32(SubSeq(emit.buf, 1, 4))

\* The type byte followed by the payload bytes.
Covered == <<emit.t % 256>> \o emit.data

\* C13: type_crc_ always holds, for every i in 0..kMaxRecordType, the
\* CRC-32C of the single byte i; and header bytes 0-3 of every record hold,
\* little-endian, the masked CRC-32C of the type byte followed by the
\* payload bytes, so that unmasking the stored value gives back that crc.
C13_Checksum ==
    /\ DOMAIN type_crc_ = 0..kMaxRecordType
    /\ \A i \in 0..kMaxRecordType : type_crc_[i] = crc32c_Value(<<i>>)
    /\ Formatted =>
         /\ Len(emit.buf) = kHeaderSize
         /\ StoredCrc = crc32c_Mask(crc32c_Value(Covered))
         /\ crc32c_Unmask(StoredCrc) = crc32c_Value(Covered)
         /\ EncodeFixed32(StoredCrc) = SubSeq(emit.buf, 1, 4)

\* A kLastType header over a payload of two or more bytes, one of them 255.
C13_Witness ==
    /\ Formatted
    /\ emit.t = kLastType
    /\ emit.length >= 2
    /\ \E j \in 1..emit.length : emit.data[j] = 255


\* ---------------------------------------------------------------- C14
\* C14: no assertion fails.  At the top of every loop iteration leftover >= 0;
\* after the block switch kBlockSize - block_offset_ - kHeaderSize >= 0; at
\* every call of EmitPhysicalRecord length <= 65535 and
\* block_offset_ + kHeaderSize + length <= kBlockSize.  This holds for fresh
\* and resumed Writers, every payload length and every failure of the file.
C14_AssertionsHold ==
    /\ pc = "do" => AssertLeftover(Leftover(block_offset_))
    /\ \A k \in 1..Len(emits) :
         /\ AssertLeftover(emits[k].leftover)
         /\ AssertRoom(emits[k].block)
         /\ AssertLength(emits[k].length)
         /\ AssertFits(emits[k].block, emits[k].length)

\* A resumed Writer whose loop ran with exactly kHeaderSize bytes left in
\* the block (room for no payload) and then with leftover = 0, while an
\* operation of the file failed.
C14_Witness ==
    /\ Resumed
    /\ nfail > 0
    /\ \E k \in 1..Len(emits) :
         emits[k].block = kBlockSize - kHeaderSize /\ emits[k].length = 0
    /\ \E k \in 1..Len(emits) : emits[k].leftover = 0


\* ---------------------------------------------------------------- C15
\* The trailer Appends made at the start of the k-th loop iteration.
TrailerOps(k) == {j \in OpsOfEmit(k) : ops[j].kind = "trailer"}

\* The file holds a run of size zero bytes that starts at byte offset off.
ZerosAt(off, size) ==
    \E c \in 1..Len(dest_) :
        /\ dest_[c].kind = "zeros"
        /\ dest_[c].size = size
        /\ SumSizes(SubSeq(dest_, 1, c - 1)) = off

\* C15: at the start of each loop iteration, with leftover = kBlockSize -
\* block_offset_, a trailer is appended iff 0 < leftover < kHeaderSize; it is
\* one Append of exactly leftover zero bytes, made before the header of the
\* fragment; block_offset_ becomes 0 iff leftover < kHeaderSize (no Append
\* when leftover = 0); when leftover >= kHeaderSize no Append is made and
\* block_offset_ keeps its value until the fragment is emitted.
C15_BlockRollover ==
    \A k \in 1..Len(emits) :
        LET leftover == emits[k].leftover
            before == kBlockSize - leftover
            all == OpsOfEmit(k)
            trailers == {j \in all : ops[j].kind = "trailer"}
        IN /\ (trailers # {}) <=> (0 < leftover /\ leftover < kHeaderSize)
           /\ Cardinality(trailers) <= 1
           /\ \A j \in trailers :
                 /\ ops[j].size = leftover
                 /\ ops[j].st = OK => ZerosAt(ops[j].off, leftover)
                 /\ \A i \in all : i >= j
           /\ leftover < kHeaderSize => emits[k].block = 0
           /\ leftover >= kHeaderSize => emits[k].block = before
           /\ (emits[k].block # before) <=> (leftover < kHeaderSize)

\* All three cases in one run: a loop iteration that found 0 < leftover <
\* kHeaderSize and appended the trailer, one that found leftover = 0, and one
\* that found exactly kHeaderSize bytes left and emitted in place.
C15_Witness ==
    /\ \E k \in 1..Len(emits) :
         /\ emits[k].leftover \in 1..(kHeaderSize - 1)
         /\ \E j \in TrailerOps(k) :
               ops[j].st = OK /\ ZerosAt(ops[j].off, emits[k].leftover)
         /\ \E j \in OpsOfEmit(k) : ops[j].kind = "header"
    /\ \E k \in 1..Len(emits) : emits[k].leftover = 0 /\ emits[k].block = 0
    /\ \E k \in 1..Len(emits) :
         /\ emits[k].leftover = kHeaderSize
         /\ emits[k].block = kBlockSize - kHeaderSize


\* ---------------------------------------------------------------- C16
\* Largest payload of one fragment.
MaxFragment == kBlockSize - kHeaderSize

\* ceil(n / MaxFragment) + 1
FragmentBound(n) == ((n + MaxFragment - 1) \div MaxFragment) + 1

\* C16: every AddRecord call that has started returns; no two loop
\* iterations in a row of one call consume zero payload bytes; a call with a
\* payload of n bytes emits at most ceil(n / (kBlockSize - kHeaderSize)) + 1
\* fragments.
C16_Termination ==
    /\ [](\A i \in 1..Len(calls) :
            Cardinality(EmitsOf(i)) <= FragmentBound(calls[i].size))
    /\ [](\A k \in 1..(Len(emits) - 1) :
            (emits[k].call = emits[k + 1].call /\ emits[k].length = 0)
                => emits[k + 1].length > 0)
    /\ (pc # "idle") ~> (pc = "idle")

\* A call that started with exactly kHeaderSize bytes left in the block,
\* emitted a zero-length fragment while payload remained, reached the bound
\* on its number of fragments and returned OK.
C16_Witness ==
    \E i \in 1..Len(calls) :
        /\ calls[i].ret = OK
        /\ calls[i].size > 0
        /\ emits[FirstEmit(i)].block = kBlockSize - kHeaderSize
        /\ emits[FirstEmit(i)].length = 0
        /\ Cardinality(EmitsOf(i)) = FragmentBound(calls[i].size)
        /\ Cardinality(EmitsOf(i)) >= 4


\* ---------------------------------------------------------------- C17
\* C17: while no operation of the file has failed, after every AddRecord
\* return block_offset_ agrees with the position in the file:
\* block_offset_ mod kBlockSize = file size mod kBlockSize, and
\* block_offset_ = kBlockSize only when the file size is a positive multiple
\* of kBlockSize.
C17_OffsetTracksFile ==
    (pc = "idle" /\ calls # <<>> /\ nfail = 0) =>
        /\ block_offset_ % kBlockSize = FileSize % kBlockSize
        /\ block_offset_ = kBlockSize =>
              (FileSize > 0 /\ FileSize % kBlockSize = 0)

\* A resumed Writer that wrote a trailer and then filled the next block to
\* its last byte, with no failure: block_offset_ rests at kBlockSize and the
\* file size is a positive multiple of kBlockSize.
C17_Witness ==
    /\ pc = "idle"
    /\ calls # <<>>
    /\ nfail = 0
    /\ Resumed
    /\ HasTrailer
    /\ block_offset_ = kBlockSize
    /\ FileSize > 0
    /\ FileSize % kBlockSize = 0


\* ---------------------------------------------------------------- C18
\* C18: every kFirstType or kMiddleType record ends exactly at the end of its
\* block, and block_offset_ = kBlockSize right after it is emitted; every
\* kMiddleType record starts at block offset 0 with length kBlockSize -
\* kHeaderSize; every kLastType record starts at block offset 0.
C18_NonFinalFillsBlock ==
    \A k \in 1..Len(emits) :
        /\ emits[k].t \in {kFirstType, kMiddleType} =>
              /\ emits[k].block + kHeaderSize + emits[k].length = kBlockSize
              /\ k \in Emitted => emits[k].after = kBlockSize
        /\ emits[k].t = kMiddleType =>
              /\ emits[k].block = 0
              /\ emits[k].length = kBlockSize - kHeaderSize
        /\ emits[k].t = kLastType => emits[k].block = 0

\* One call that emitted a kFirstType record from the middle of a block,
\* then a kMiddleType and a kLastType record, and returned.
C18_Witness ==
    \E i \in 1..Len(calls) :
        /\ Returned(i)
        /\ \E a, b, c \in EmitsOf(i) :
              /\ emits[a].t = kFirstType
              /\ emits[a].block > 0
              /\ emits[a].length > 0
              /\ emits[a].after = kBlockSize
              /\ emits[b].t = kMiddleType
              /\ emits[b].after = kBlockSize
              /\ emits[c].t = kLastType
              /\ emits[c].after < kBlockSize


\* ---------------------------------------------------------------- C19
\* C19: a record of length 0 is either the kFullType record of an empty
\* payload, or the kFirstType record of a non-empty payload whose call
\* started with block_offset_ = kBlockSize - kHeaderSize; kMiddleType and
\* kLastType records have length >= 1.
C19_ZeroLengthRecords ==
    \A k \in 1..Len(emits) :
        LET i == emits[k].call
        IN /\ emits[k].length = 0 =>
                 \/ /\ emits[k].t = kFullType
                    /\ calls[i].size = 0
                 \/ /\ emits[k].t = kFirstType
                    /\ calls[i].size > 0
                    /\ k = FirstEmit(i)
                    /\ calls[i].entry = kBlockSize - kHeaderSize
                    /\ emits[k].block = kBlockSize - kHeaderSize
           /\ emits[k].t \in {kMiddleType, kLastType} => emits[k].length >= 1

\* Both situations in one run: a zero-length kFirstType record followed by
\* the kLastType record of the same payload, and a zero-length kFullType
\* record of an empty payload.
C19_Witness ==
    /\ \E k \in Emitted :
         /\ emits[k].length = 0
         /\ emits[k].t = kFirstType
         /\ k + 1 \in Emitted
         /\ emits[k + 1].t = kLastType
         /\ emits[k + 1].length = calls[emits[k].call].size
    /\ \E k \in Emitted : emits[k].length = 0 /\ emits[k].t = kFullType


\* ---------------------------------------------------------------- C20
\* The last operation the i-th call made on the file.
LastOp(i) == CHOOSE j \in OpsOf(i) : \A x \in OpsOf(i) : x <= j

\* C20: when AddRecord returns OK, the last operation it made on the file is
\* a Flush that succeeded, so every Append of the call (trailer, headers,
\* payloads) comes before a successful Flush of the same call.
C20_SuccessEndsWithFlush ==
    \A i \in 1..Len(calls) :
        calls[i].ret = OK =>
            LET all == OpsOf(i)
                last == CHOOSE j \in all : \A x \in all : x <= j
            IN /\ all # {}
               /\ ops[last].kind = "flush"
               /\ ops[last].st = OK
               /\ \A j \in all : ops[j].kind # "flush" => j < last

\* A call that appended a trailer and two or more records and returned OK,
\* in a run where a Flush of another call failed.
C20_Witness ==
    /\ \E i \in 1..Len(calls) :
         /\ calls[i].ret = OK
         /\ Cardinality(EmitsOf(i)) >= 2
         /\ \E j \in OpsOf(i) : ops[j].kind = "trailer" /\ ops[j].st = OK
         /\ ops[LastOp(i)].kind = "flush"
    /\ \E i \in 1..Len(calls) :
         /\ calls[i].ret # OK
         /\ Returned(i)
         /\ ops[LastOp(i)].kind = "flush"

====
